---- MODULE Spec2Model ----
(***************************************************************************)
(* Model of the form designer of forge: the DesignerContext state          *)
(* (elements, selectedElement), its mutation operations addElement,        *)
(* removeElement and updateElement, and the Designer's onDragEnd handler   *)
(* with the click handlers of the canvas; the validate functions of the    *)
(* field registry; the Form row with the server actions that write it; the *)
(* SaveBtn of the builder; the runtime form FormSubmit.                    *)
(*                                                                         *)
(* Array positions are JavaScript positions (0-based); Pos(s, i) reads     *)
(* position i of a list.                                                   *)
(***************************************************************************)
EXTENDS Integers, Sequences, FiniteSets, TLC

\* ------------------------------------------------------------------ bounds
\* Largest element id; ids are 1..MaxId, 0 stands for "no id" (undefined).
MaxId == 3
\* Longest element list of the drag-and-drop specification.
MaxLen == 3
\* Longest element list of the editing-session specification.
MaxSessionLen == 2
\* Longest element list of the specification of the handler on any event.
MaxHandlerLen == 1
\* Longest element list the raw context calls build.
MaxOpsLen == 3
\* Largest element id the raw context calls pass.
MaxOpsId == 2
\* Browser tabs that open the form.
MaxTabs == 2
\* Cap of the visits and submissions counters of the Form row.
MaxCount == 2
\* Longest element list a tab saves in the server-action specification.
MaxServerLen == 1
\* Most fields of the form a visitor fills in.
MaxSubmitLen == 2
\* Longest element list, and largest id, of the save specification.
MaxSaveLen == 2
MaxSaveId == 2

Ids == 1..MaxId

\* Two of the field types of the registry: an input field with attributes
\* and a layout field without any.
ElementTypes == {"TextField", "SeparatorField"}

\* extraAttributes of a SeparatorField instance: the key is absent
NoAttributes == [defined |-> FALSE, required |-> FALSE]

\* extraAttributes of a TextField instance, reduced to the attribute
\* `required` (label, helperText and placeholder are carried the same way)
TextAttributes(required) == [defined |-> TRUE, required |-> required]

Attributes == {NoAttributes} \cup {TextAttributes(r) : r \in BOOLEAN}

\* FormElementInstance
Elements ==
    {e \in [id : Ids, type : ElementTypes, extraAttributes : Attributes] :
        e.extraAttributes.defined <=> e.type = "TextField"}

\* The null of `FormElementInstance | null`.
Null == [id |-> 0, type |-> "null", extraAttributes |-> NoAttributes]

VARIABLES
    elements,          \* DesignerContext.elements
    selectedElement,   \* DesignerContext.selectedElement
    last,              \* the last call or event handled, with its outcome
    prevElements,      \* elements before the last raw context call (the
                       \* designer events do not track it)
    field,             \* a call of validate: instance, value and result
    form,              \* the Form row of the database
    pages,             \* what each browser tab renders for the form
    save,              \* SaveBtn: the transition and the requests in flight
    runtime            \* FormSubmit: the runtime form a visitor fills in

\* The state outside the DesignerContext
runtimeVars == <<field, form, pages, save, runtime>>

vars ==
    <<elements, selectedElement, last, prevElements, field, form, pages, save,
      runtime>>

\* ------------------------------------------------------- list helpers (JS)
Min(a, b) == IF a < b THEN a ELSE b
Max(a, b) == IF a > b THEN a ELSE b

\* s[i] with a 0-based position
Pos(s, i) == s[i + 1]

IdsOf(s) == {s[k].id : k \in 1..Len(s)}

\* Array.prototype.findIndex((el) => el.id === id): first position or -1
FindIndex(s, id) ==
    IF \E k \in 1..Len(s) : s[k].id = id
      THEN (CHOOSE k \in 1..Len(s) :
               s[k].id = id /\ \A j \in 1..(k - 1) : s[j].id # id) - 1
      ELSE -1

\* Variant of Splice that clamps a negative start to 0
SpliceClamped(s, start, item) ==
    LET k == Min(Max(start, 0), Len(s))
    IN  SubSeq(s, 1, k) \o <<item>> \o SubSeq(s, k + 1, Len(s))

\* Array.prototype.splice(start, 0, item) on a copy: a negative start counts
\* from the end, and the start is then clamped to [0, length].
Splice(s, start, item) ==
    LET k == IF start < 0 THEN Max(Len(s) + start, 0) ELSE Min(start, Len(s))
    IN  SubSeq(s, 1, k) \o <<item>> \o SubSeq(s, k + 1, Len(s))

\* Variant of SetIndex where a negative index counts from the end
SetIndexFromEnd(s, index, item) ==
    [k \in 1..Len(s) |->
        IF k - 1 = (IF index < 0 THEN Len(s) + index ELSE index)
          THEN item ELSE s[k]]

\* a[index] = item on a copy, for an index below the length: the items of
\* the copy are its properties 0..length-1, and a write at index -1 sets
\* the property "-1", which is none of them.
SetIndex(s, index, item) ==
    [k \in 1..Len(s) |-> IF k - 1 = index THEN item ELSE s[k]]

\* Array.prototype.filter((element) => element.id !== id)
FilterOut(s, id) == SelectSeq(s, LAMBDA e : e.id # id)

\* ------------------------------------------------- DesignerContext methods
\* Variant of addElement whose updater runs twice on the same array
addElementTwice(prev, index, element) ==
    Splice(Splice(prev, index, element), index, element)

\* Variant of addElement that pushes instead of splicing at index
addElementPush(prev, index, element) == Append(prev, element)

\* Variant of addElement that unshifts instead of splicing at index
addElementUnshift(prev, index, element) == <<element>> \o prev

addElement(prev, index, element) == Splice(prev, index, element)

\* Variant of removeElement that returns the list as it is
removeElementKeep(prev, id) == prev

\* Variant of removeElement with the filter test inverted
removeElementInverted(prev, id) == SelectSeq(prev, LAMBDA e : e.id = id)

\* Variant of removeElement that drops the matching element and its successor
removeElementTwo(prev, id) ==
    LET index == FindIndex(prev, id)
    IN  IF index = -1 THEN prev
        ELSE SubSeq(prev, 1, index) \o SubSeq(prev, index + 3, Len(prev))

\* Variant of removeElement that cuts the list at the matching element
removeElementRest(prev, id) ==
    LET index == FindIndex(prev, id)
    IN  IF index = -1 THEN prev ELSE SubSeq(prev, 1, index)

removeElement(prev, id) == FilterOut(prev, id)

\* Variant of updateElement that splices the element in at index
updateElementInsert(prev, id, element) ==
    Splice(prev, FindIndex(prev, id), element)

\* const newElements = [...prev]; newElements[index] = element
updateElement(prev, id, element) ==
    SetIndex(prev, FindIndex(prev, id), element)

\* FormElements[type].construct(id)
construct(type, id) ==
    [id |-> id, type |-> type,
     extraAttributes |->
         IF type = "TextField" THEN TextAttributes(FALSE) ELSE NoAttributes]

\* idGenerator(): an id that no element of the list carries
idGenerator(s) == Ids \ IdsOf(s)

\* --------------------------------------------------------- JSON of a list
BoolText(b) == IF b THEN "true" ELSE "false"

\* JSON.stringify of one element, as its keys and values in order; a key
\* whose value is undefined is left out
StringifyElement(e) ==
    <<"id", ToString(e.id), "type", e.type>>
      \o (IF e.extraAttributes.defined
            THEN <<"extraAttributes", "required",
                   BoolText(e.extraAttributes.required)>>
            ELSE <<>>)

\* Variant of Stringify that serialises the items last to first
StringifyReversed(s) ==
    [k \in 1..Len(s) |-> StringifyElement(s[Len(s) + 1 - k])]

\* JSON.stringify(elements): the items of the array in order (a property
\* that is not an index is not serialised)
Stringify(s) == [k \in 1..Len(s) |-> StringifyElement(s[k])]

\* JSON.parse of one element
ParseElement(t) ==
    [id |-> CHOOSE i \in 0..MaxId : ToString(i) = t[2],
     type |-> t[4],
     extraAttributes |->
         IF Len(t) > 4 THEN TextAttributes(t[7] = "true") ELSE NoAttributes]

\* JSON.parse(form.content)
Parse(content) == [k \in 1..Len(content) |-> ParseElement(content[k])]

\* ------------------------------------------------------------ drag payloads
\* active.data.current / over.data.current; NoData is a missing `over`.
NoData == [kind |-> "none"]

\* SidebarElement draggable
BtnData(type) ==
    [kind |-> "data", isDesignerBtnElement |-> TRUE, isDesignerElement |-> FALSE,
     type |-> type, elementId |-> 0]

\* DesignerElementWrapper draggable
ElementData(e) ==
    [kind |-> "data", isDesignerBtnElement |-> FALSE, isDesignerElement |-> TRUE,
     type |-> e.type, elementId |-> e.id]

\* Designer droppable
DropAreaData ==
    [kind |-> "data", isDesignerDropArea |-> TRUE,
     isTopHalfDesignerElement |-> FALSE, isBottomHalfDesignerElement |-> FALSE,
     elementId |-> 0]

\* DesignerElementWrapper topHalf / bottomHalf droppables
TopHalfData(e) ==
    [kind |-> "data", isDesignerDropArea |-> FALSE,
     isTopHalfDesignerElement |-> TRUE, isBottomHalfDesignerElement |-> FALSE,
     elementId |-> e.id]

BottomHalfData(e) ==
    [kind |-> "data", isDesignerDropArea |-> FALSE,
     isTopHalfDesignerElement |-> FALSE, isBottomHalfDesignerElement |-> TRUE,
     elementId |-> e.id]

\* A draggable that is neither a sidebar button nor an element wrapper
OtherData ==
    [kind |-> "data", isDesignerBtnElement |-> FALSE, isDesignerElement |-> FALSE,
     type |-> "none", elementId |-> 0]

\* A droppable that carries both half flags
BothHalvesData(e) ==
    [kind |-> "data", isDesignerDropArea |-> FALSE,
     isTopHalfDesignerElement |-> TRUE, isBottomHalfDesignerElement |-> TRUE,
     elementId |-> e.id]

\* The draggables and droppables mounted for a list
ActiveData(s) ==
    {BtnData(t) : t \in ElementTypes} \cup {ElementData(s[k]) : k \in 1..Len(s)}

OverData(s) ==
    {NoData, DropAreaData}
      \cup {TopHalfData(s[k]) : k \in 1..Len(s)}
      \cup {BottomHalfData(s[k]) : k \in 1..Len(s)}

\* Payloads whose element need not be in the list (an event that the list
\* no longer matches)
AnyActiveData ==
    {BtnData(t) : t \in ElementTypes} \cup {ElementData(e) : e \in Elements}
      \cup {OtherData}

AnyOverData ==
    {NoData, DropAreaData}
      \cup {TopHalfData(e) : e \in Elements}
      \cup {BottomHalfData(e) : e \in Elements}

\* ------------------------------------------------------ Designer.onDragEnd
\* Variant of the first-case test that does not look at the source
droppingAnythingOverDesignDropArea(active, over) == over.isDesignerDropArea

\* isDesignerBtnElement && isDroppingOverDesignDropArea
droppingSidebarBtnOverDesignDropArea(active, over) ==
    active.isDesignerBtnElement /\ over.isDesignerDropArea

isDroppingOverDesignerElement(over) ==
    over.isBottomHalfDesignerElement \/ over.isTopHalfDesignerElement

droppingSidebarBtnOverDesignerElement(active, over) ==
    active.isDesignerBtnElement /\ isDroppingOverDesignerElement(over)

isDraggingDesignerElementOverAnotherDesignerElement(active, over) ==
    isDroppingOverDesignerElement(over) /\ active.isDesignerElement

\* Variant of indexForNewElement in which the top-half flag decides
indexForNewElementTopFirst(els, over) ==
    IF over.isTopHalfDesignerElement
      THEN FindIndex(els, over.elementId)
      ELSE FindIndex(els, over.elementId) + 1

\* overElementIndex, or overElementIndex + 1 on the bottom half
indexForNewElement(els, over) ==
    IF over.isBottomHalfDesignerElement
      THEN FindIndex(els, over.elementId) + 1
      ELSE FindIndex(els, over.elementId)

\* First case: a sidebar button over the drop area
firstCase(els, active, newId) ==
    [elements |-> addElement(els, Len(els), construct(active.type, newId)),
     branch |-> "first", outcome |-> "ok"]

\* Second case: a sidebar button over a half of an element
secondCase(els, active, over, newId) ==
    IF FindIndex(els, over.elementId) = -1
      THEN [elements |-> els, branch |-> "second", outcome |-> "error"]
      ELSE [elements |-> addElement(els, indexForNewElement(els, over),
                                    construct(active.type, newId)),
            branch |-> "second", outcome |-> "ok"]

\* Variant of the third case that removes the dragged element before it
\* looks the two indices up
thirdCaseRemovesFirst(els, active, over) ==
    LET activeElementIndex == FindIndex(els, active.elementId)
        removed == removeElement(els, active.elementId)
    IN  IF activeElementIndex = -1 \/ FindIndex(els, over.elementId) = -1
          THEN [elements |-> removed, branch |-> "third", outcome |-> "error"]
          ELSE [elements |-> addElement(removed, indexForNewElement(els, over),
                                        Pos(els, activeElementIndex)),
                branch |-> "third", outcome |-> "ok"]

\* Third case: an element of the list over a half of an element; both
\* indices are those of the list before the removal
thirdCase(els, active, over) ==
    LET activeElementIndex == FindIndex(els, active.elementId)
    IN  IF activeElementIndex = -1 \/ FindIndex(els, over.elementId) = -1
          THEN [elements |-> els, branch |-> "third", outcome |-> "error"]
          ELSE [elements |->
                   addElement(removeElement(els, active.elementId),
                              indexForNewElement(els, over),
                              Pos(els, activeElementIndex)),
                branch |-> "third", outcome |-> "ok"]

\* The handler as a function of the list it closes over, the event and the
\* id the generator hands out: the resulting list, the case taken and
\* whether it threw.
onDragEnd(els, active, over, newId) ==
    IF over = NoData
      THEN [elements |-> els, branch |-> "none", outcome |-> "ok"]
    ELSE IF droppingSidebarBtnOverDesignDropArea(active, over)
      THEN firstCase(els, active, newId)
    ELSE IF droppingSidebarBtnOverDesignerElement(active, over)
      THEN secondCase(els, active, over, newId)
    ELSE IF isDraggingDesignerElementOverAnotherDesignerElement(active, over)
      THEN thirdCase(els, active, over)
    ELSE [elements |-> els, branch |-> "none", outcome |-> "ok"]

\* ------------------------------------------------- the registry's validate
\* The keys of FormElements
FieldTypes ==
    {"TextField", "TitleField", "SubTitleField", "ParagraphField",
     "SeparatorField", "SpacerField", "NumberField", "TextAreaField",
     "DateField", "CheckboxField", "SelectField"}

\* The field types whose validate tests the length of the value
LengthValidated ==
    {"TextField", "NumberField", "TextAreaField", "DateField", "SelectField"}

\* Instances of every field type; only the input fields and the checkbox
\* have the attribute `required`, and a SeparatorField has no attributes
FieldInstances ==
    {e \in [id : {1}, type : FieldTypes, extraAttributes : Attributes] :
        /\ e.extraAttributes.defined <=> e.type # "SeparatorField"
        /\ e.extraAttributes.required
             => e.type \in LengthValidated \cup {"CheckboxField"}}

\* Values a form component submits
FieldValues == {"", "a", "true", "false"}

\* validate of TextField, NumberField, TextAreaField, DateField and
\* SelectField
LengthValidate(formElement, currentValue) ==
    IF formElement.extraAttributes.required
      THEN Len(currentValue) > 0
      ELSE TRUE

\* Variant of CheckboxValidate that tests the length of the value
CheckboxValidateLength(formElement, currentValue) ==
    IF formElement.extraAttributes.required
      THEN Len(currentValue) > 0
      ELSE TRUE

\* validate of CheckboxField
CheckboxValidate(formElement, currentValue) ==
    IF formElement.extraAttributes.required
      THEN currentValue = "true"
      ELSE TRUE

\* validate of the layout fields: () => true
LayoutValidate(formElement, currentValue) == TRUE

\* FormElements[formElement.type].validate(formElement, currentValue)
validate(formElement, currentValue) ==
    IF formElement.type \in LengthValidated
      THEN LengthValidate(formElement, currentValue)
    ELSE IF formElement.type = "CheckboxField"
      THEN CheckboxValidate(formElement, currentValue)
    ELSE LayoutValidate(formElement, currentValue)

\* A call of validate, before and after it returns
FieldCall(element, value, called, valid) ==
    [element |-> element, value |-> value, called |-> called, valid |-> valid]

NoField == FieldCall(Null, "", FALSE, TRUE)

\* ------------------------------------------------- Form row, server actions
\* The columns of model Form that the actions below read or write
\* and, as FormSubmission, the number of FormSubmission rows of the form
FormRow(content, published, visits, submissions) ==
    [content |-> content, published |-> published, visits |-> visits,
     submissions |-> submissions, FormSubmission |-> submissions]

\* The row a CreateForm leaves: content "[]", not published, no counts
NewForm == FormRow(<<>>, FALSE, 0, 0)

\* The shareURL of the form, and a URL that no form has
ShareURL == "url"

FormUrls == {ShareURL, "other"}

\* Variant of UpdateFormContent that makes the form a draft again
UpdateFormContentDraft(row, jsonContent) ==
    [row EXCEPT !.content = jsonContent, !.published = FALSE]

\* UpdateFormContent(id, jsonContent): update where {userId, id}
UpdateFormContent(row, jsonContent) == [row EXCEPT !.content = jsonContent]

\* PublishForm(id): data {published: true}
PublishForm(row) == [row EXCEPT !.published = TRUE]

\* GetFormContentByUrl(formUrl): visits {increment: 1}, where {shareURL}
GetFormContentByUrl(row) == [row EXCEPT !.visits = @ + 1]

\* Variant of SubmitForm whose where does not test published
SubmitFormUnpublished(row, formUrl) ==
    IF formUrl = ShareURL
      THEN [row EXCEPT !.submissions = @ + 1, !.FormSubmission = @ + 1]
      ELSE row

\* Variant of SubmitForm that creates no FormSubmission row
SubmitFormCounterOnly(row, formUrl) ==
    IF formUrl = ShareURL /\ row.published
      THEN [row EXCEPT !.submissions = @ + 1]
      ELSE row

\* SubmitForm(formUrl, content): one update where {shareURL, published:
\* true} that increments submissions and creates a FormSubmission row;
\* without such a form the update throws and nothing is written
SubmitForm(row, formUrl) ==
    IF formUrl = ShareURL /\ row.published
      THEN [row EXCEPT !.submissions = @ + 1, !.FormSubmission = @ + 1]
      ELSE row

\* The view FormBuilder renders for the row it was given: the published
\* page, or the designer with the Save and Publish buttons
View(row) == IF row.published THEN "published" ELSE "builder"

Tabs == 1..MaxTabs

\* The first tab shows the builder, the other tabs are closed
OneBuilder == [t \in Tabs |-> IF t = 1 THEN "builder" ELSE "closed"]

\* ------------------------------------------------------------------ SaveBtn
\* loading is the pending flag of the transition, requests the
\* UpdateFormContent calls in flight, calls and toasts the calls made and the
\* toasts shown since the last click, toast the last toast, sent the list
\* the last click serialised
SaveState(loading, requests, calls, toasts, toast, sent) ==
    [loading |-> loading, requests |-> requests, calls |-> calls,
     toasts |-> toasts, toast |-> toast, sent |-> sent]

IdleSave == SaveState(FALSE, <<>>, 0, 0, "none", <<>>)

\* Variant of SaveEnabled for a button that is never disabled
SaveEnabledAlways(s) == TRUE

\* disabled={loading}
SaveEnabled(s) == ~s.loading

\* startTransition(updateContent) up to the await: the transition is
\* pending and one UpdateFormContent call is in flight
updateContent(s, els) ==
    SaveState(TRUE, Append(s.requests, Stringify(els)), 1, 0, s.toast, els)

\* The await returned: the success toast, and the transition ends
updateContentDone(s) ==
    [s EXCEPT !.loading = FALSE, !.requests = Tail(@), !.toasts = @ + 1,
              !.toast = "Success"]

\* Variant of updateContentFailed that sends the request again
updateContentFailedRetries(s) ==
    [s EXCEPT !.requests = Append(Tail(@), Head(@)), !.calls = @ + 1]

\* Variant of updateContentFailed after which the transition stays pending
updateContentFailedStuck(s) ==
    [s EXCEPT !.requests = Tail(@), !.toasts = @ + 1, !.toast = "Error"]

\* The await threw: the error toast of the catch, and the transition ends
updateContentFailed(s) ==
    [s EXCEPT !.loading = FALSE, !.requests = Tail(@), !.toasts = @ + 1,
              !.toast = "Error"]

\* --------------------------------------------------------------- FormSubmit
\* Values a visitor leaves in a text input
TextValues == {"", "a"}

\* A key that formValues.current does not have
Undefined == "undefined"

\* formValues.current[field.id] || ""
actualValue(values, id) == IF values[id] = Undefined THEN "" ELSE values[id]

\* values are formValues.current and errors the keys of formErrors.current,
\* typed the value state of each input, requests the SubmitForm calls in
\* flight, each with the JSON of formValues.current
RuntimeState(values, errors, typed, loading, submitted, requests, toast) ==
    [values |-> values, errors |-> errors, typed |-> typed,
     loading |-> loading, submitted |-> submitted, requests |-> requests,
     toast |-> toast]

\* FormSubmit as it mounts for the fields of a form
FreshRuntime(fields) ==
    RuntimeState([id \in IdsOf(fields) |-> Undefined], {},
                 [id \in IdsOf(fields) |-> ""], FALSE, FALSE, <<>>, "none")

\* No runtime form is open
NoRuntime == FreshRuntime(<<>>)

\* JSON.stringify(formValues.current): the keys recorded, with their values
StringifyValues(values) ==
    {<<ToString(id), values[id]>> : id \in {i \in DOMAIN values : values[i] # Undefined}}

\* Variant of validateForm that returns at the first invalid field
validateFormFirst(fields, values) ==
    LET bad == {k \in 1..Len(fields) :
                   ~validate(fields[k], actualValue(values, fields[k].id))}
    IN  {fields[k].id : k \in {j \in bad : \A i \in bad : j <= i}}

\* validateForm: the keys it sets in formErrors.current, after submitForm
\* has emptied it; the form is valid when there is none
validateForm(fields, values) ==
    {fields[k].id : k \in {j \in 1..Len(fields) :
        ~validate(fields[j], actualValue(values, fields[j].id))}}

\* onBlur of the input of a TextField after the visitor typed value:
\* submitValue(element.id, value) only when the value is valid
onBlur(rt, element, value) ==
    IF validate(element, value)
      THEN [rt EXCEPT !.typed[element.id] = value, !.values[element.id] = value]
      ELSE [rt EXCEPT !.typed[element.id] = value]

\* Variant of submitForm that sends whatever validateForm returns
submitFormAlways(rt, fields) ==
    [rt EXCEPT !.errors = validateForm(fields, rt.values),
               !.loading = TRUE,
               !.requests = Append(@, StringifyValues(rt.values))]

\* submitForm up to its await or its return: a rejected submit sets a new
\* renderKey, which mounts every input anew with its recorded value
submitForm(rt, fields) ==
    LET errors == validateForm(fields, rt.values)
    IN  IF errors # {}
          THEN [rt EXCEPT !.errors = errors,
                          !.typed = [id \in DOMAIN rt.typed |->
                                        actualValue(rt.values, id)],
                          !.toast = "Error"]
          ELSE [rt EXCEPT !.errors = errors,
                          !.loading = TRUE,
                          !.requests = Append(@, StringifyValues(rt.values))]

\* The state outside the DesignerContext where a specification leaves it
\* alone: no validate call, a new row, one builder tab, no save
RuntimeAtRest ==
    /\ field = NoField
    /\ form = NewForm
    /\ pages = OneBuilder
    /\ save = IdleSave
    /\ runtime = NoRuntime

\* ------------------------------------------------------------------- state
\* Record of the last call or event
Last(op, active, over, id, index, el, branch, outcome) ==
    [op |-> op, active |-> active, over |-> over, id |-> id, index |-> index,
     el |-> el, branch |-> branch, outcome |-> outcome]

\* Lists with pairwise distinct ids, as a saved form content holds them
UniqueLists(n) ==
    {s \in UNION {[1..k -> Elements] : k \in 0..n} :
        \A i, j \in 1..Len(s) : i # j => s[i].id # s[j].id}

\* FormBuilder load effect: setElements(JSON.parse(form.content));
\* setSelectedElement(null), for a content of at most n elements
Load(n) ==
    /\ elements \in UniqueLists(n)
    /\ selectedElement = Null
    /\ last = Last("load", NoData, NoData, 0, 0, Null, "none", "ok")
    /\ prevElements = <<>>
    /\ RuntimeAtRest

\* A drag-end event of dnd-kit with payloads of the given sets, handled by
\* Designer.onDragEnd; a new field is dropped only while the list is shorter
\* than n
DragEndWith(n, actives, overs) ==
    \E active \in actives, over \in overs :
        IF active.isDesignerBtnElement /\ over # NoData
          THEN /\ Len(elements) < n
               /\ \E newId \in idGenerator(elements) :
                    LET r == onDragEnd(elements, active, over, newId)
                    IN  /\ elements' = r.elements
                        /\ last' = Last("dragEnd", active, over, newId, 0, Null,
                                        r.branch, r.outcome)
                        /\ UNCHANGED <<selectedElement, prevElements, runtimeVars>>
          ELSE LET r == onDragEnd(elements, active, over, 0)
               IN  /\ elements' = r.elements
                   /\ last' = Last("dragEnd", active, over, 0, 0, Null,
                                   r.branch, r.outcome)
                   /\ UNCHANGED <<selectedElement, prevElements, runtimeVars>>

\* A drag-end event between the draggables and droppables mounted for the
\* list
DragEndUpTo(n) == DragEndWith(n, ActiveData(elements), OverData(elements))

\* Click on the trash button of an element: removeElement(element.id)
DeleteClick ==
    \E k \in 1..Len(elements) :
        /\ elements' = removeElement(elements, elements[k].id)
        /\ last' = Last("delete", NoData, NoData, elements[k].id, 0, Null,
                        "none", "ok")
        /\ UNCHANGED <<selectedElement, prevElements, runtimeVars>>

\* Click on an element: setSelectedElement(element)
SelectClick ==
    \E k \in 1..Len(elements) :
        /\ selectedElement' = elements[k]
        /\ last' = Last("select", NoData, NoData, elements[k].id, 0, Null,
                        "none", "ok")
        /\ UNCHANGED <<elements, prevElements, runtimeVars>>

\* Click on the canvas background, or on the close button of the
\* properties sidebar: setSelectedElement(null)
DeselectClick ==
    /\ selectedElement # Null
    /\ selectedElement' = Null
    /\ last' = Last("deselect", NoData, NoData, 0, 0, Null, "none", "ok")
    /\ UNCHANGED <<elements, prevElements, runtimeVars>>

\* applyChanges of the properties form of the selected element (a
\* SeparatorField has no properties form)
ApplyChanges ==
    /\ selectedElement # Null
    /\ selectedElement.type = "TextField"
    /\ \E required \in BOOLEAN :
         LET newElement == [selectedElement EXCEPT
                              !.extraAttributes = TextAttributes(required)]
         IN  /\ elements' = updateElement(elements, selectedElement.id, newElement)
             /\ last' = Last("applyChanges", NoData, NoData, selectedElement.id,
                             0, newElement, "none", "ok")
             /\ UNCHANGED <<selectedElement, prevElements, runtimeVars>>

\* The editing session of the builder: every event of the designer
Init == Load(MaxSessionLen)

DragEnd == DragEndUpTo(MaxSessionLen)

Next == DragEnd \/ DeleteClick \/ SelectClick \/ DeselectClick \/ ApplyChanges

Spec == Init /\ [][Next]_vars

\* Drag and drop alone, on longer lists: every drag-end event from every
\* loaded list
InitDrag == Load(MaxLen)

DragEndDrag == DragEndUpTo(MaxLen)

NextDrag == DragEndDrag \/ DeleteClick

SpecDrag == InitDrag /\ [][NextDrag]_vars

\* Drag and drop onto half-zones that may carry both flags
TieOverData(s) == OverData(s) \cup {BothHalvesData(s[k]) : k \in 1..Len(s)}

DragEndTie ==
    DragEndWith(MaxSessionLen, ActiveData(elements), TieOverData(elements))

NextTie == DragEndTie \/ DeleteClick

SpecTie == Init /\ [][NextTie]_vars

\* The handler on any event: payloads that name elements outside the list
\* and sources of neither kind included
InitHandler == Load(MaxHandlerLen)

DragEndAny == DragEndWith(MaxHandlerLen, AnyActiveData, AnyOverData)

NextHandler == DragEndAny \/ SelectClick

SpecHandler == InitHandler /\ [][NextHandler]_vars

\* ------------------------------------------- the context methods, called raw
InitOps ==
    /\ elements = <<>>
    /\ selectedElement = Null
    /\ last = Last("load", NoData, NoData, 0, 0, Null, "none", "ok")
    /\ prevElements = <<>>
    /\ RuntimeAtRest

\* addElement(index, element) with any index and any element
AddElementCall ==
    /\ Len(elements) < MaxOpsLen
    /\ \E index \in (0 - MaxOpsLen - 1)..(MaxOpsLen + 1),
          element \in {e \in Elements : e.id <= MaxOpsId} :
         /\ elements' = addElement(elements, index, element)
         /\ last' = Last("addElement", NoData, NoData, element.id, index, element,
                         "none", "ok")
         /\ prevElements' = elements
         /\ UNCHANGED <<selectedElement, runtimeVars>>

\* removeElement(id) with any id; el records the element that the call just
\* before added (Null when that call was not an addElement)
RemoveElementCall ==
    \E id \in 1..MaxOpsId :
        /\ elements' = removeElement(elements, id)
        /\ last' = Last("removeElement", NoData, NoData, id, 0,
                        IF last.op = "addElement" THEN last.el ELSE Null,
                        "none", "ok")
        /\ prevElements' = elements
        /\ UNCHANGED <<selectedElement, runtimeVars>>

NextOps == AddElementCall \/ RemoveElementCall

SpecOps == InitOps /\ [][NextOps]_vars

\* updateElement(id, element) with any id and any element
UpdateElementCall ==
    \E id \in 1..MaxOpsId, element \in {e \in Elements : e.id <= MaxOpsId} :
        /\ elements' = updateElement(elements, id, element)
        /\ last' = Last("updateElement", NoData, NoData, id,
                        FindIndex(elements, id), element, "none", "ok")
        /\ prevElements' = elements
        /\ UNCHANGED <<selectedElement, runtimeVars>>

\* The three context methods, called raw
NextCtx == AddElementCall \/ RemoveElementCall \/ UpdateElementCall

SpecCtx == InitOps /\ [][NextCtx]_vars

\* ------------------------------------------------------ validate, called
InitValidate ==
    /\ elements = <<>>
    /\ selectedElement = Null
    /\ last = Last("load", NoData, NoData, 0, 0, Null, "none", "ok")
    /\ prevElements = <<>>
    /\ \E e \in FieldInstances, v \in FieldValues :
          field = FieldCall(e, v, FALSE, TRUE)
    /\ form = NewForm
    /\ pages = OneBuilder
    /\ save = IdleSave
    /\ runtime = NoRuntime

\* FormElements[field.type].validate(field, value)
ValidateCall ==
    /\ ~field.called
    /\ field' = FieldCall(field.element, field.value, TRUE,
                          validate(field.element, field.value))
    /\ last' = Last("validate", NoData, NoData, 0, 0, Null, "none", "ok")
    /\ UNCHANGED <<elements, selectedElement, prevElements, form, pages, save, runtime>>

NextValidate == ValidateCall

SpecValidate == InitValidate /\ [][NextValidate]_vars

\* --------------------------------------- the server actions, from any tab
\* The contents a tab saves: lists of at most MaxServerLen elements whose ids
\* are numbered in list order
ServerContents ==
    {s \in UniqueLists(MaxServerLen) : \A k \in 1..Len(s) : s[k].id = k}

\* A stored form and no tab open on it
InitServer ==
    /\ elements = <<>>
    /\ selectedElement = Null
    /\ last = Last("load", NoData, NoData, 0, 0, Null, "none", "ok")
    /\ prevElements = <<>>
    /\ field = NoField
    /\ \E s \in ServerContents : form = FormRow(Stringify(s), FALSE, 0, 0)
    /\ pages = [t \in Tabs |-> "closed"]
    /\ save = IdleSave
    /\ runtime = NoRuntime

\* A tab opens /builder/[id]: GetFormById, then FormBuilder renders the row
OpenBuilder ==
    \E t \in Tabs :
        /\ pages' = [pages EXCEPT ![t] = View(form)]
        /\ last' = Last("open", NoData, NoData, t, 0, Null, "none", "ok")
        /\ UNCHANGED <<elements, selectedElement, prevElements, field, form, save, runtime>>

\* The Save button of a tab that shows the builder, with the list the tab
\* holds: UpdateFormContent(id, JSON.stringify(elements))
SaveFromTab ==
    \E t \in Tabs, s \in ServerContents :
        /\ pages[t] = "builder"
        /\ form' = UpdateFormContent(form, Stringify(s))
        /\ last' = Last("UpdateFormContent", NoData, NoData, t, 0, Null,
                        "none", "ok")
        /\ UNCHANGED <<elements, selectedElement, prevElements, field, pages, save, runtime>>

\* The Publish button of a tab that shows the builder: PublishForm(id)
PublishFromTab ==
    \E t \in Tabs :
        /\ pages[t] = "builder"
        /\ form' = PublishForm(form)
        /\ last' = Last("PublishForm", NoData, NoData, t, 0, Null, "none", "ok")
        /\ UNCHANGED <<elements, selectedElement, prevElements, field, pages, save, runtime>>

\* A visitor opens /submit/[formUrl]: GetFormContentByUrl(formUrl)
VisitForm ==
    /\ form.visits < MaxCount
    /\ form' = GetFormContentByUrl(form)
    /\ last' = Last("GetFormContentByUrl", NoData, NoData, 0, 0, Null,
                    "none", "ok")
    /\ UNCHANGED <<elements, selectedElement, prevElements, field, pages, save, runtime>>

\* A call of SubmitForm(formUrl, content), from a runtime form or not;
\* branch records the URL
SubmitFormCall ==
    \E formUrl \in FormUrls :
        /\ form.submissions < MaxCount
        /\ form' = SubmitForm(form, formUrl)
        /\ last' = Last("SubmitForm", NoData, NoData, 0, 0, Null, formUrl,
                        IF form' = form THEN "error" ELSE "ok")
        /\ UNCHANGED <<elements, selectedElement, prevElements, field, pages, save, runtime>>

NextServer ==
    OpenBuilder \/ SaveFromTab \/ PublishFromTab \/ VisitForm \/ SubmitFormCall

SpecServer == InitServer /\ [][NextServer]_vars

\* ------------------------------------------------- one builder tab that saves
\* Lists with distinct ids up to MaxSaveId
SavedLists ==
    {s \in UniqueLists(MaxSaveLen) : \A k \in 1..Len(s) : s[k].id <= MaxSaveId}

\* The builder opened on a stored, unpublished form: the load effect parses
\* form.content into the context
InitSave ==
    /\ \E s \in SavedLists : form = FormRow(Stringify(s), FALSE, 0, 0)
    /\ elements = Parse(form.content)
    /\ selectedElement = Null
    /\ last = Last("load", NoData, NoData, 0, 0, Null, "none", "ok")
    /\ prevElements = <<>>
    /\ field = NoField
    /\ pages = OneBuilder
    /\ save = IdleSave
    /\ runtime = NoRuntime

\* Click on Save: startTransition(updateContent)
SaveClick ==
    /\ pages[1] = "builder"
    /\ SaveEnabled(save)
    /\ save' = updateContent(save, elements)
    /\ last' = Last("save", NoData, NoData, 0, 0, Null, "none", "ok")
    /\ UNCHANGED <<elements, selectedElement, prevElements, field, form, pages, runtime>>

\* A call in flight is served and the await returns
SaveDone ==
    /\ Len(save.requests) > 0
    /\ form' = UpdateFormContent(form, Head(save.requests))
    /\ save' = updateContentDone(save)
    /\ last' = Last("saved", NoData, NoData, 0, 0, Null, "none", "ok")
    /\ UNCHANGED <<elements, selectedElement, prevElements, field, pages, runtime>>

\* A call in flight fails (no user, no such row, no connection) and the
\* await throws
SaveFailed ==
    /\ Len(save.requests) > 0
    /\ save' = updateContentFailed(save)
    /\ last' = Last("saveFailed", NoData, NoData, 0, 0, Null, "none", "error")
    /\ UNCHANGED <<elements, selectedElement, prevElements, field, form, pages, runtime>>

\* The tab loads the builder again while no call is in flight: the
\* components mount anew and the load effect parses form.content; branch
\* records whether the step before stored a save
Reload ==
    /\ Len(save.requests) = 0
    /\ elements' = Parse(form.content)
    /\ selectedElement' = Null
    /\ pages' = [pages EXCEPT ![1] = View(form)]
    /\ save' = IdleSave
    /\ last' = Last("reload", NoData, NoData, 0, 0, Null,
                    IF last.op = "saved" THEN "saved" ELSE "none", "ok")
    /\ UNCHANGED <<prevElements, field, form, runtime>>

NextSave ==
    SaveClick \/ SaveDone \/ SaveFailed \/ Reload \/ DeleteClick \/ SelectClick

SpecSave == InitSave /\ [][NextSave]_vars

\* --------------------------------------------- one visitor's runtime form
\* Contents whose fields carry the ids 1..n in order
SubmitContents ==
    {s \in UniqueLists(MaxSubmitLen) : \A k \in 1..Len(s) : s[k].id = k}

\* The fields FormSubmit is given: JSON.parse of the content of the form
Fields == Parse(form.content)

\* The submit page has fetched the form (one visit) and mounted FormSubmit
InitSubmit ==
    /\ elements = <<>>
    /\ selectedElement = Null
    /\ last = Last("load", NoData, NoData, 0, 0, Null, "none", "ok")
    /\ prevElements = <<>>
    /\ field = NoField
    /\ \E s \in SubmitContents, published \in BOOLEAN :
          form = GetFormContentByUrl(FormRow(Stringify(s), published, 0, 0))
    /\ pages = [t \in Tabs |-> "closed"]
    /\ save = IdleSave
    /\ runtime = FreshRuntime(Fields)

\* The visitor types a value into the input of a TextField and leaves it
BlurField ==
    \E k \in 1..Len(Fields), value \in TextValues :
        /\ ~runtime.submitted
        /\ Fields[k].type = "TextField"
        /\ runtime' = onBlur(runtime, Fields[k], value)
        /\ last' = Last("blur", NoData, NoData, Fields[k].id, 0, Null,
                        "none", "ok")
        /\ UNCHANGED <<elements, selectedElement, prevElements, field, form, pages, save>>

\* Click on Submit: startTransition(submitForm)
SubmitClick ==
    /\ ~runtime.submitted
    /\ ~runtime.loading
    /\ runtime' = submitForm(runtime, Fields)
    /\ last' = Last("submit", NoData, NoData, 0, 0, Null, "none",
                    IF Len(runtime'.requests) > Len(runtime.requests)
                      THEN "ok" ELSE "error")
    /\ UNCHANGED <<elements, selectedElement, prevElements, field, form, pages, save>>

\* The SubmitForm call in flight is served: setSubmitted(true)
SubmitServed ==
    /\ Len(runtime.requests) > 0
    /\ form.published
    /\ form.submissions < MaxCount
    /\ form' = SubmitForm(form, ShareURL)
    /\ runtime' = [runtime EXCEPT !.requests = Tail(@), !.loading = FALSE,
                                  !.submitted = TRUE]
    /\ last' = Last("submitted", NoData, NoData, 0, 0, Null, "none", "ok")
    /\ UNCHANGED <<elements, selectedElement, prevElements, field, pages, save>>

\* The SubmitForm call in flight throws (the form is not published, or the
\* call does not reach the database): the toast of the catch
SubmitThrew ==
    /\ Len(runtime.requests) > 0
    /\ runtime' = [runtime EXCEPT !.requests = Tail(@), !.loading = FALSE,
                                  !.toast = "Error"]
    /\ last' = Last("submitFailed", NoData, NoData, 0, 0, Null, "none", "error")
    /\ UNCHANGED <<elements, selectedElement, prevElements, field, form, pages, save>>

NextSubmit == BlurField \/ SubmitClick \/ SubmitServed \/ SubmitThrew

SpecSubmit == InitSubmit /\ [][NextSubmit]_vars

\* ================================================================ properties
UniqueIds(s) == \A i, j \in 1..Len(s) : i # j => s[i].id # s[j].id

Count(s, e) == Cardinality({k \in 1..Len(s) : s[k] = e})

IsPermutation(a, b) ==
    /\ Len(a) = Len(b)
    /\ \A e \in Elements : Count(a, e) = Count(b, e)

\* the last event was a drag-end that took the given case and did not throw
Took(l, branch) == l.op = "dragEnd" /\ l.branch = branch /\ l.outcome = "ok"

\* x sits right before t (top half) or right after t (bottom half) in new,
\* and the other elements of old keep their order
LandsNextTo(old, new, x, t, isTop) ==
    /\ Len(new) = Len(old)
    /\ FilterOut(new, x) = FilterOut(old, x)
    /\ FindIndex(new, x) # -1
    /\ FindIndex(new, x) = FindIndex(new, t) + (IF isTop THEN -1 ELSE 1)

\* C1: a reposition of element X onto a half-zone of another element T puts
\* X immediately before T (top half) or immediately after T (bottom half)
\* and keeps the relative order of all other elements, wherever X was.
C1_RepositionLandsNextToTarget ==
    [][(Took(last', "third") /\ last'.active.elementId # last'.over.elementId)
         => LandsNextTo(elements, elements', last'.active.elementId,
                        last'.over.elementId,
                        last'.over.isTopHalfDesignerElement)]_vars

\* C2: a reposition of element X onto its own top or bottom half-zone leaves
\* the element list exactly as it was.
C2_SelfDropIsNoOp ==
    [][(Took(last', "third") /\ last'.active.elementId = last'.over.elementId)
         => elements' = elements]_vars

\* C3 (as stated): after any sequence of addElement and removeElement calls
\* from the empty list the ids of the list are pairwise distinct.
C3_UniqueAfterAnyCalls == UniqueIds(elements)

\* C3 (amended): a call of addElement with an element whose id is not in the
\* list, and any call of removeElement, keeps the ids pairwise distinct; so
\* every sequence of such calls from the empty list ends in a list with
\* pairwise distinct ids.
C3_UniqueAfterFreshCalls ==
    (/\ UniqueIds(prevElements)
     /\ last.op = "addElement" => last.el.id \notin IdsOf(prevElements))
      => UniqueIds(elements)

C3_Witness ==
    /\ last.op = "addElement"
    /\ last.el.id \notin IdsOf(prevElements)
    /\ Len(elements) >= 2
    /\ UniqueIds(elements)

\* C4: in every state the designer events reach from a loaded list with
\* unique ids, the ids of the list are pairwise distinct.
C4_UniqueIdsInDesigner == UniqueIds(elements)

C4_Witness ==
    /\ Took(last, "third")
    /\ last.active.elementId # last.over.elementId
    /\ Len(elements) = MaxSessionLen
    /\ UniqueIds(elements)

\* C5: a reposition of element X onto a half-zone of any element yields a
\* permutation of the list: same length, same ids, X once and unchanged.
C5_RepositionIsPermutation ==
    [][Took(last', "third")
         => LET x == last'.active.elementId
            IN  /\ IsPermutation(elements, elements')
                /\ IdsOf(elements') = IdsOf(elements)
                /\ Cardinality({k \in 1..Len(elements') : elements'[k].id = x}) = 1
                /\ Pos(elements', FindIndex(elements', x))
                     = Pos(elements, FindIndex(elements, x))]_vars

C5_Witness ==
    /\ Took(last, "third")
    /\ last.active.elementId # last.over.elementId
    /\ Len(elements) >= 3
    /\ Cardinality({k \in 1..Len(elements) :
                       elements[k].id = last.active.elementId}) = 1

\* C6: a new field of type T dropped on a half-zone of the element at
\* position P of a list of length N yields a list of length N+1; on the
\* bottom half the new element is at P+1 and the target stays at P, on the
\* top half the new element is at P and the target moves to P+1; the N
\* existing elements keep their order.
C6_NewFieldOntoHalfZone ==
    [][Took(last', "second")
         => LET P == FindIndex(elements, last'.over.elementId)
                bottom == last'.over.isBottomHalfDesignerElement
                I == IF bottom THEN P + 1 ELSE P
            IN  /\ Len(elements') = Len(elements) + 1
                /\ Pos(elements', I).type = last'.active.type
                /\ Pos(elements', I).id = last'.id
                /\ bottom => Pos(elements', P) = Pos(elements, P)
                /\ ~bottom => Pos(elements', P + 1) = Pos(elements, P)
                /\ FilterOut(elements', last'.id) = elements]_vars

C6_Witness ==
    /\ Took(last, "second")
    /\ last.over.isBottomHalfDesignerElement
    /\ Len(elements) >= 3
    /\ FindIndex(elements, last.id) = FindIndex(elements, last.over.elementId) + 1
    /\ FindIndex(elements, last.id) < Len(elements) - 1

\* C7: a new field of type T dropped on the canvas drop area appends one
\* element of type T at the end and leaves the existing elements in place.
C7_NewFieldOntoCanvasAppends ==
    [][Took(last', "first")
         => /\ Len(elements') = Len(elements) + 1
            /\ SubSeq(elements', 1, Len(elements)) = elements
            /\ Pos(elements', Len(elements)).type = last'.active.type
            /\ Pos(elements', Len(elements)).id = last'.id]_vars

C7_Witness ==
    /\ Took(last, "first")
    /\ Len(elements) >= 2
    /\ elements[Len(elements)].id = last.id
    /\ elements[Len(elements)].type = last.active.type

\* a removeElement call with the id of the element the call before added
UndoesAdd(l0, l1) ==
    l0.op = "addElement" /\ l1.op = "removeElement" /\ l1.id = l0.el.id

\* C8 (as stated): addElement(i, e) directly followed by removeElement(e.id)
\* restores the list, for every list, index and element.
C8_AddThenRemoveRestores ==
    [][UndoesAdd(last, last') => elements' = prevElements]_vars

\* C8 (amended): addElement(i, e) directly followed by removeElement(e.id)
\* restores the list whenever no element of the list carries e.id before the
\* addElement call.
C8_AddFreshThenRemoveRestores ==
    [][(UndoesAdd(last, last') /\ last.el.id \notin IdsOf(prevElements))
         => elements' = prevElements]_vars

C8_Witness ==
    /\ last.op = "removeElement"
    /\ last.el # Null
    /\ last.el.id = last.id
    /\ Cardinality({k \in 1..Len(prevElements) : prevElements[k].id = last.id}) = 1
    /\ Len(elements) >= 2

\* elements is prevElements with last.el inserted at position k
InsertedAt(k) ==
    /\ Len(elements) = Len(prevElements) + 1
    /\ Pos(elements, k) = last.el
    /\ \A i \in 0..(Len(prevElements) - 1) :
          Pos(elements, IF i < k THEN i ELSE i + 1) = Pos(prevElements, i)

\* C9 (as stated): addElement(index, element) inserts at position
\* min(max(index, 0), length).
C9_AddClampsIndex ==
    last.op = "addElement"
      => InsertedAt(Min(Max(last.index, 0), Len(prevElements)))

\* C9 (amended): addElement(index, element) inserts at position
\* min(index, length) for an index >= 0 and at position
\* max(length + index, 0) for an index below 0; the elements at or after
\* that position shift right by one and no error is raised.
C9_AddSpliceIndex ==
    last.op = "addElement"
      => /\ last.outcome = "ok"
         /\ InsertedAt(IF last.index < 0
                         THEN Max(Len(prevElements) + last.index, 0)
                         ELSE Min(last.index, Len(prevElements)))

C9_Witness ==
    /\ last.op = "addElement"
    /\ last.index = -1
    /\ Len(prevElements) = 2
    /\ Pos(elements, 1) = last.el

\* C10: a non-null selection refers to an element whose id is in the list
\* (removeElement clears the selection when it removes the selected element).
C10_SelectionIsInList ==
    selectedElement # Null => selectedElement.id \in IdsOf(elements)

\* C11: removeElement(id) removes the elements whose id is id and nothing
\* else: the other elements stay, in the same relative order; one element
\* goes when the ids are distinct and id is present, and the list is
\* unchanged when id is absent.
C11_RemoveTakesOnlyMatching ==
    last.op = "removeElement"
      => LET keep == {k \in 1..Len(prevElements) : prevElements[k].id # last.id}
         IN  /\ Len(elements) = Cardinality(keep)
             /\ \A k \in keep :
                   elements[Cardinality({j \in keep : j <= k})] = prevElements[k]
             /\ (UniqueIds(prevElements) /\ last.id \in IdsOf(prevElements))
                   => Len(elements) = Len(prevElements) - 1
             /\ last.id \notin IdsOf(prevElements) => elements = prevElements

C11_Witness ==
    /\ last.op = "removeElement"
    /\ Len(prevElements) = 3
    /\ prevElements[2].id = last.id
    /\ prevElements[1].id # last.id
    /\ prevElements[3].id # last.id
    /\ elements = <<prevElements[1], prevElements[3]>>

\* C12: updateElement(id, newElement) with id in the list puts newElement at
\* the position of that element; the length and every other position stay.
C12_UpdateReplacesInPlace ==
    (last.op = "updateElement" /\ last.id \in IdsOf(prevElements))
      => /\ Len(elements) = Len(prevElements)
         /\ Pos(elements, last.index) = last.el
         /\ Pos(prevElements, last.index).id = last.id
         /\ \A i \in 0..(Len(prevElements) - 1) :
               i # last.index => Pos(elements, i) = Pos(prevElements, i)

C12_Witness ==
    /\ last.op = "updateElement"
    /\ Len(prevElements) = 3
    /\ last.index = 1
    /\ prevElements[2] # last.el
    /\ elements = <<prevElements[1], last.el, prevElements[3]>>

\* C13: updateElement(id, newElement) with id not in the list changes
\* nothing: the list, and the JSON a save serialises from it, are as before,
\* and the call does not throw.
C13_UpdateAbsentIsNoOp ==
    (last.op = "updateElement" /\ last.id \notin IdsOf(prevElements))
      => /\ elements = prevElements
         /\ Stringify(elements) = Stringify(prevElements)
         /\ last.outcome = "ok"

C13_Witness ==
    /\ last.op = "updateElement"
    /\ last.id \notin IdsOf(prevElements)
    /\ last.index = -1
    /\ Len(prevElements) >= 2
    /\ prevElements[Len(prevElements)] # last.el
    /\ elements = prevElements

\* the three ways in which an event matches no case
MatchesNoCase(active, over) ==
    \/ over = NoData
    \/ over # NoData /\ active.isDesignerElement /\ over.isDesignerDropArea
    \/ ~active.isDesignerBtnElement /\ ~active.isDesignerElement

\* C14: a drag-end with no drop target, with an existing element over the
\* canvas drop area, or with a source that is neither a sidebar button nor
\* an existing element leaves the list and the selection as they are.
C14_UnmatchedDragEndChangesNothing ==
    [][(last'.op = "dragEnd" /\ MatchesNoCase(last'.active, last'.over))
         => /\ elements' = elements
            /\ selectedElement' = selectedElement
            /\ last'.branch = "none"
            /\ last'.outcome = "ok"]_vars

C14_Witness ==
    /\ last.op = "dragEnd"
    /\ last.active = OtherData
    /\ last.over # NoData
    /\ last.over.isTopHalfDesignerElement
    /\ last.over.elementId \in IdsOf(elements)
    /\ selectedElement # Null
    /\ Len(elements) >= 1

\* the event names a half-zone target, or a dragged element, that the list
\* does not hold
Unresolved(els, active, over) ==
    /\ over # NoData
    /\ isDroppingOverDesignerElement(over)
    /\ \/ /\ active.isDesignerBtnElement
          /\ over.elementId \notin IdsOf(els)
       \/ /\ ~active.isDesignerBtnElement
          /\ active.isDesignerElement
          /\ (over.elementId \notin IdsOf(els)
                \/ active.elementId \notin IdsOf(els))

\* C15: a drag-end onto a half-zone whose target id, or whose dragged
\* element's id, is not in the list throws and leaves the list exactly as
\* it was; the reposition case removes nothing before both are resolved.
C15_UnresolvedDragEndAborts ==
    [][(last'.op = "dragEnd" /\ Unresolved(elements, last'.active, last'.over))
         => /\ last'.outcome = "error"
            /\ elements' = elements]_vars

C15_Witness ==
    /\ last.op = "dragEnd"
    /\ last.branch = "third"
    /\ last.outcome = "error"
    /\ last.active.elementId \in IdsOf(elements)
    /\ last.over.elementId \notin IdsOf(elements)
    /\ Len(elements) >= 1

\* C16 (as stated): for every field type, validate returns false exactly
\* when required is true and the value is the empty string.
C16_InvalidIffRequiredAndEmpty ==
    field.called
      => (~field.valid
            <=> (field.element.extraAttributes.required /\ field.value = ""))

\* C16 (amended): validate returns false exactly when required is true and
\* the value is the empty string, except for a CheckboxField, where it
\* returns false exactly when required is true and the value is not "true";
\* a field without the attribute required is always valid.
C16_InvalidIffRequiredAndUnset ==
    field.called
      => (~field.valid
            <=> /\ field.element.extraAttributes.required
                /\ IF field.element.type = "CheckboxField"
                     THEN field.value # "true"
                     ELSE field.value = "")

C16_Witness ==
    /\ field.called
    /\ field.element.type = "CheckboxField"
    /\ field.element.extraAttributes.required
    /\ field.value = "false"
    /\ ~field.valid

\* C17: once the published flag of the form is true its stored content
\* never changes, whatever the tabs and the visitors call.
C17_PublishedContentIsFrozen ==
    [][form.published => form'.content = form.content]_vars

\* C18: at most one save is in flight, and while one is in flight the Save
\* button is disabled.
C18_OneSaveInFlight ==
    /\ Len(save.requests) <= 1
    /\ Len(save.requests) = 1 => ~SaveEnabled(save)

C18_Witness ==
    /\ Len(save.requests) = 1
    /\ save.loading
    /\ save.requests[1] # form.content

\* C19: a click on Save makes one UpdateFormContent call; when the call
\* ends, one toast, Success or Error, has been shown for it, no further
\* call has been made and the button is enabled again.
C19_OneCallOneOutcome ==
    [][/\ last'.op = "save"
          => /\ save'.calls = 1
             /\ Len(save'.requests) = Len(save.requests) + 1
       /\ last'.op \in {"saved", "saveFailed"}
          => /\ save'.calls = 1
             /\ save'.toasts = 1
             /\ save'.toast = (IF last'.op = "saved" THEN "Success" ELSE "Error")
             /\ Len(save'.requests) = 0
             /\ SaveEnabled(save')]_vars

C19_Witness ==
    /\ last.op = "saveFailed"
    /\ save.toast = "Error"
    /\ save.calls = 1
    /\ save.toasts = 1
    /\ Len(save.requests) = 0
    /\ ~save.loading
    /\ form.content # Stringify(save.sent)

\* C20: a save that is stored, directly followed by a load, gives back the
\* list that was saved: the same elements, with id, type and attributes,
\* in the same order.
C20_SaveThenLoadRoundTrips ==
    [][(last.op = "saved" /\ last'.op = "reload") => elements' = save.sent]_vars

C20_Witness ==
    /\ last.op = "reload"
    /\ last.branch = "saved"
    /\ Len(elements) = 2
    /\ elements[1].type = "SeparatorField"
    /\ elements[2].extraAttributes.required
    /\ form.content = Stringify(elements)

\* C21: a click on Save and the end of a save, stored or failed, leave the
\* list and the selection as they are; after a failed save the Save button
\* is enabled and drag-end, remove, update and select are enabled exactly as
\* the list and the selection allow.
C21_SaveLeavesSessionUsable ==
    /\ [][last'.op \in {"save", "saved", "saveFailed"}
            => /\ elements' = elements
               /\ selectedElement' = selectedElement]_vars
    /\ [](last.op = "saveFailed"
            => /\ ENABLED SaveClick
               /\ ENABLED DragEnd
               /\ Len(elements) > 0 => (ENABLED DeleteClick /\ ENABLED SelectClick)
               /\ (selectedElement # Null /\ selectedElement.type = "TextField")
                     => ENABLED ApplyChanges)

C21_Witness ==
    /\ last.op = "saveFailed"
    /\ Len(elements) >= 1
    /\ selectedElement # Null
    /\ selectedElement.type = "TextField"
    /\ selectedElement.id \in IdsOf(elements)
    /\ form.content # Stringify(elements)

\* C22: after a rejected submit the fields flagged are exactly the fields
\* whose validate returns false for their recorded value, the empty string
\* when none is recorded: validation does not stop at the first of them.
C22_RejectedSubmitFlagsEveryInvalid ==
    (last.op = "submit" /\ last.outcome = "error")
      => /\ runtime.errors # {}
         /\ runtime.errors =
              {Fields[k].id : k \in {j \in 1..Len(Fields) :
                  ~validate(Fields[j],
                            IF runtime.values[Fields[j].id] = Undefined
                              THEN "" ELSE runtime.values[Fields[j].id])}}

C22_Witness ==
    /\ last.op = "submit"
    /\ last.outcome = "error"
    /\ Len(Fields) = 2
    /\ runtime.errors = {1, 2}

\* some field of the form fails validate for its recorded value
SomeFieldInvalid ==
    \E k \in 1..Len(Fields) :
        ~validate(Fields[k], actualValue(runtime.values, Fields[k].id))

\* C23: a click on Submit calls SubmitForm only when every field validates
\* against its recorded value; when a field fails, no call is made, the
\* form is not marked submitted and nothing is stored.
C23_SubmitOnlyValidForms ==
    [][last'.op = "submit"
         => /\ Len(runtime'.requests) > Len(runtime.requests) => ~SomeFieldInvalid
            /\ SomeFieldInvalid
                 => /\ runtime'.requests = runtime.requests
                    /\ ~runtime'.submitted
                    /\ ~runtime'.loading
                    /\ form' = form]_vars

C23_Witness ==
    /\ last.op = "submit"
    /\ last.outcome = "ok"
    /\ Len(Fields) = 2
    /\ Fields[2].extraAttributes.required
    /\ runtime.values[2] = "a"
    /\ Len(runtime.requests) = 1
    /\ <<"2", "a">> \in runtime.requests[1]

\* C24: on a half-zone target at position P, a new field or a repositioned
\* element is inserted at index P+1 when the bottom-half flag is set,
\* whether or not the top-half flag is set too, and at index P when only
\* the top-half flag is set; for a reposition the index is taken in the
\* list without the dragged element and capped at its length.
C24_BottomFlagDecidesOffset ==
    [][(last'.op = "dragEnd" /\ last'.outcome = "ok"
          /\ last'.branch \in {"second", "third"})
         => LET P == FindIndex(elements, last'.over.elementId)
                I == IF last'.over.isBottomHalfDesignerElement THEN P + 1 ELSE P
                third == last'.branch = "third"
                rest == IF third
                          THEN FilterOut(elements, last'.active.elementId)
                          ELSE elements
                movedId == IF third THEN last'.active.elementId ELSE last'.id
            IN  /\ Len(elements') = Len(rest) + 1
                /\ Pos(elements', Min(I, Len(rest))).id = movedId
                /\ FilterOut(elements', movedId) = rest]_vars

C24_Witness ==
    /\ last.op = "dragEnd"
    /\ last.outcome = "ok"
    /\ last.branch = "second"
    /\ last.over.isTopHalfDesignerElement
    /\ last.over.isBottomHalfDesignerElement
    /\ Len(elements) >= 2
    /\ FindIndex(elements, last.id) = FindIndex(elements, last.over.elementId) + 1

\* C25: SubmitForm records a submission only for the published form of its
\* URL; for an unpublished form or an unknown URL the call throws and
\* neither the counter nor the stored submissions change.
C25_SubmitNeedsPublishedForm ==
    [][last'.op = "SubmitForm"
         => IF form.published /\ last'.branch = ShareURL
              THEN /\ last'.outcome = "ok"
                   /\ form'.submissions = form.submissions + 1
                   /\ form'.FormSubmission = form.FormSubmission + 1
              ELSE /\ last'.outcome = "error"
                   /\ form' = form]_vars

C25_Witness ==
    /\ last.op = "SubmitForm"
    /\ last.branch = ShareURL
    /\ last.outcome = "error"
    /\ ~form.published
    /\ form.visits > 0
    /\ form.submissions = 0

\* C26: the submissions counter equals the number of stored FormSubmission
\* rows in every state; a served SubmitForm adds one to both and no other
\* action changes either.
C26_CounterEqualsStoredSubmissions ==
    /\ [](form.submissions = form.FormSubmission)
    /\ [][IF last'.op = "SubmitForm" /\ last'.outcome = "ok"
            THEN /\ form'.submissions = form.submissions + 1
                 /\ form'.FormSubmission = form.FormSubmission + 1
            ELSE /\ form'.submissions = form.submissions
                 /\ form'.FormSubmission = form.FormSubmission]_vars

C26_Witness ==
    /\ last.op = "SubmitForm"
    /\ last.outcome = "ok"
    /\ form.submissions >= 2
    /\ form.FormSubmission = form.submissions

\* C27: submissions <= visits in every state, so the submission rate is in
\* [0, 100] and the bounce rate is not negative.
C27_SubmissionsAtMostVisits == form.submissions <= form.visits

\* C30: once the published flag of the form is true it stays true.
C30_PublishedStaysTrue == [][form.published => form'.published]_vars

C30_Witness ==
    /\ form.published
    /\ last.op = "UpdateFormContent"
    /\ Len(form.content) > 0
    /\ form.submissions > 0

\* C28: when a click on Submit sends a submission, the value recorded for
\* each text field is the value the visitor last left in its input.
C28_SentValueIsValueLeft ==
    [][(last'.op = "submit" /\ last'.outcome = "ok")
         => \A k \in 1..Len(Fields) :
               Fields[k].type = "TextField"
                 => actualValue(runtime.values, Fields[k].id)
                      = runtime.typed[Fields[k].id]]_vars

\* C29: a non-null selection whose id is in the list has the type and the
\* attributes of the list element with that id.
C29_SelectionMatchesList ==
    (selectedElement # Null /\ selectedElement.id \in IdsOf(elements))
      => selectedElement = Pos(elements, FindIndex(elements, selectedElement.id))

====
